---- MODULE Spec2Model ----
(***************************************************************************)
(* Model of the spritesheet packer (src/src/main.rs): one run of main, and *)
(* the pure stages filter_images, calculate_row_count, create_spritesheet. *)
(*                                                                         *)
(* A file name is a sequence of one-character strings, so that split(".")  *)
(* and the extension match are computed and not assumed.  A u32 that can   *)
(* leave the range of the model checker's integers (the saturated cast of  *)
(* an infinite f32, a wrapped product) is a word: four bytes, least        *)
(* significant first.                                                      *)
(***************************************************************************)
EXTENDS Integers, Sequences, FiniteSets, TLC

VARIABLES
    args,               \* std::env::args(): program name, then the arguments
    dir,                \* entries of the working directory, in read_dir order
    pc,                 \* the call try_create_spritesheet is about to make
    use_auto_row_count, \* main.rs:21
    path_to_images,     \* main.rs:22
    images,             \* main.rs:23, the decoded images
    filtered,           \* main.rs:24, the images after filter_images
    stdin_line,         \* the line read_line returned (manual mode)
    row_count,          \* main.rs:25
    spritesheet,        \* main.rs:31, the composed canvas
    loop_log,           \* what each iteration of the loops of main.rs:145-155 did
    stdout,             \* the lines printed so far
    file,               \* spritesheet.png in the working directory
    result,             \* how the run ended: Ok, an Err kind, or a panic
    completed,          \* the stages that returned without failing, in order
    failed,             \* the stage that failed, if any
    writer_calls        \* how many times save_image was entered

vars == <<args, dir, pc, use_auto_row_count, path_to_images, images, filtered,
          stdin_line, row_count, spritesheet, loop_log, stdout, file, result,
          completed, failed, writer_calls>>

(***************************************************************************)
(* Bounds of the model.                                                    *)
(***************************************************************************)
MaxFiles == 2
MaxFilterLen == 4
MaxImages == 10
MaxCell == 2
MaxRowCount == 4

(***************************************************************************)
(* u32 words.                                                              *)
(***************************************************************************)
U32(n) == <<n % 256, (n \div 256) % 256, (n \div 65536) % 256, (n \div 16777216) % 256>>

ToNat(word) == word[1] + 256 * word[2] + 65536 * word[3] + 16777216 * word[4]

U32_MAX == <<255, 255, 255, 255>>

ZeroWord == <<0, 0, 0, 0>>

RECURSIVE ColSum(_, _, _, _)
ColSum(a, b, k, i) ==
    IF i > 4 THEN 0
    ELSE (IF (k - i + 1) \in 1..4 THEN a[i] * b[k - i + 1] ELSE 0) + ColSum(a, b, k, i + 1)

RECURSIVE MulDigits(_, _, _, _)
MulDigits(a, b, k, carry) ==
    IF k > 8 THEN <<>>
    ELSE LET s == ColSum(a, b, k, 1) + carry
         IN  <<s % 256>> \o MulDigits(a, b, k + 1, s \div 256)

\* u32::overflowing_mul: the wrapped product and whether it wrapped.
OverflowingMul(a, b) ==
    LET wide == MulDigits(a, b, 1, 0)
    IN  [value |-> SubSeq(wide, 1, 4), overflow |-> SubSeq(wide, 5, 8) # ZeroWord]

\* a * b on u32: with overflow checks (a debug build) an overflow panics,
\* without them (a release build) the product wraps.
MulU32(a, b, overflow_checks) ==
    LET r == OverflowingMul(a, b)
    IN  [panic |-> r.overflow /\ overflow_checks, value |-> r.value]

RECURSIVE AddDigits(_, _, _, _)
AddDigits(a, b, k, carry) ==
    IF k > 4 THEN <<carry>>
    ELSE LET s == a[k] + b[k] + carry
         IN  <<s % 256>> \o AddDigits(a, b, k + 1, s \div 256)

\* a < b on words.
LtU32(a, b) ==
    \E i \in 1..4 : a[i] < b[i] /\ \A j \in (i + 1)..4 : a[j] = b[j]

\* a < b + c, the sum taken exactly (five bytes).
LtSum(a, b, c) ==
    LET s == AddDigits(b, c, 1, 0)
    IN  s[5] > 0 \/ LtU32(a, SubSeq(s, 1, 4))

(***************************************************************************)
(* filter_images, main.rs:103-136.                                         *)
(***************************************************************************)
Key(image) == <<image.height, image.width>>

\* main.rs:104-111: one pass, entry(key).or_default() += 1.
RECURSIVE CountPass(_, _, _)
CountPass(imgs, i, map) ==
    IF i > Len(imgs) THEN map
    ELSE LET k == Key(imgs[i])
         IN  CountPass(imgs, i + 1,
                 IF k \in DOMAIN map
                 THEN [map EXCEPT ![k] = @ + 1]
                 ELSE [x \in DOMAIN map \cup {k} |-> IF x = k THEN 1 ELSE map[x]])

EmptyMap == [x \in {} |-> 0]

resolution_map(imgs) == CountPass(imgs, 1, EmptyMap)

\* main.rs:113: values().max(); None (and unwrap panics) on an empty map.
MaxValue(map) == CHOOSE v \in {map[k] : k \in DOMAIN map} : \A k \in DOMAIN map : map[k] <= v

\* A slip that keeps the least common resolution: min() for max().
min_popular_value(map) ==
    CHOOSE v \in {map[k] : k \in DOMAIN map} : \A k \in DOMAIN map : v <= map[k]

max_popular_value(map) == MaxValue(map)

\* main.rs:115-121: the first entry, in the map's iteration order, whose count
\* is the maximum.  The order of a HashMap is arbitrary: any such key can be it.
PopularCandidates(imgs) ==
    LET map == resolution_map(imgs)
    IN  {k \in DOMAIN map : map[k] = max_popular_value(map)}

\* main.rs:127-133: the images of the popular resolution, in input order.
RECURSIVE KeepPass(_, _, _)
KeepPass(imgs, i, popular_resolution) ==
    IF i > Len(imgs) THEN <<>>
    ELSE (IF imgs[i].height = popular_resolution[1] /\ imgs[i].width = popular_resolution[2]
          THEN <<imgs[i]>> ELSE <<>>)
         \o KeepPass(imgs, i + 1, popular_resolution)

\* filter_images, given the key the iteration of main.rs:116 met first.
filter_images(imgs, popular_resolution) ==
    IF Len(imgs) = 0 THEN [panic |-> TRUE, ok |-> FALSE, value |-> <<>>]
    ELSE IF popular_resolution = <<0, 0>> THEN [panic |-> FALSE, ok |-> FALSE, value |-> <<>>]
    ELSE [panic |-> FALSE, ok |-> TRUE, value |-> KeepPass(imgs, 1, popular_resolution)]

(***************************************************************************)
(* calculate_row_count, main.rs:160-162.                                   *)
(***************************************************************************)
\* (images_count as f32).sqrt().floor() as u32.  Below 2^23 the conversion is
\* exact and the correctly rounded root has the integer part of the real root.
RECURSIVE FloorSqrtFrom(_, _)
FloorSqrtFrom(n, k) == IF (k + 1) * (k + 1) > n THEN k ELSE FloorSqrtFrom(n, k + 1)

\* A slip that rounds the root to the nearest integer instead of down.
calculate_row_count_round(images_count) ==
    LET k == FloorSqrtFrom(images_count, 0)
    IN  IF images_count - k * k > k THEN k + 1 ELSE k

calculate_row_count(images_count) == FloorSqrtFrom(images_count, 0)

(***************************************************************************)
(* create_spritesheet, main.rs:138-158.                                    *)
(***************************************************************************)
\* main.rs:140: (len as f32 / row_count as f32).ceil() as u32.  A division by
\* 0.0 gives NaN (0/0) or +inf, and the cast maps NaN to 0 and saturates +inf.
\* A slip that truncates the quotient: an integer division for the f32 one.
FloorDivAsU32(len, rc) ==
    IF rc = 0 THEN (IF len = 0 THEN ZeroWord ELSE U32_MAX) ELSE U32(len \div rc)

\* A slip that always adds a row: len / row_count + 1 for the ceiling.
DivPlusOneAsU32(len, rc) ==
    IF rc = 0 THEN (IF len = 0 THEN ZeroWord ELSE U32_MAX) ELSE U32(len \div rc + 1)

CeilDivAsU32(len, rc) ==
    IF rc = 0 THEN (IF len = 0 THEN ZeroWord ELSE U32_MAX)
    ELSE U32(IF len % rc = 0 THEN len \div rc ELSE len \div rc + 1)

\* GenericImage::copy_from as called at main.rs:150-152: an Err, which the
\* unwrap turns into a panic, unless the source fits at (x, y).
copy_from(canvas, other, x, y) ==
    ~ (LtSum(canvas.width, U32(other.width), x) \/ LtSum(canvas.height, U32(other.height), y))

\* A slip that takes image_res in the order (height, width).
OffsetSwapped(x, y, image_res, overflow_checks) ==
    [px |-> MulU32(U32(x), U32(image_res[2]), overflow_checks),
     py |-> MulU32(U32(y), U32(image_res[1]), overflow_checks)]

\* main.rs:151: x * image_res.0, y * image_res.1
Offset(x, y, image_res, overflow_checks) ==
    [px |-> MulU32(U32(x), U32(image_res[1]), overflow_checks),
     py |-> MulU32(U32(y), U32(image_res[2]), overflow_checks)]

\* main.rs:144-155.  st: y, x, image_index, the cells copied so far, the log.
RECURSIVE PlaceLoop(_, _)
PlaceLoop(env, st) ==
    IF st.y >= env.height THEN st
    ELSE IF st.x >= env.row_count
         THEN PlaceLoop(env, [st EXCEPT !.y = @ + 1, !.x = 0])
    ELSE IF Len(env.images) - 1 < st.image_index
         THEN PlaceLoop(env, [st EXCEPT !.y = @ + 1, !.x = 0,
                  !.log = Append(@, [y |-> st.y, x |-> st.x, kind |-> "break",
                                     index |-> st.image_index])])
    ELSE LET at == Offset(st.x, st.y, env.image_res, env.overflow_checks)
             px == at.px
             py == at.py
         IN  IF px.panic \/ py.panic
                \/ ~ copy_from(env.canvas, env.images[st.image_index + 1], px.value, py.value)
             THEN [st EXCEPT !.panic = TRUE]
             ELSE PlaceLoop(env, [st EXCEPT
                      !.x = @ + 1,
                      !.image_index = @ + 1,
                      !.cells = Append(@, [image |-> env.images[st.image_index + 1],
                                           x |-> px.value, y |-> py.value]),
                      !.log = Append(@, [y |-> st.y, x |-> st.x, kind |-> "copy",
                                         index |-> st.image_index])])

NoCanvas == [width |-> ZeroWord, height |-> ZeroWord, cells |-> <<>>]

Panicked == [panic |-> TRUE, value |-> NoCanvas, log |-> <<>>]

create_spritesheet(rc, imgs, overflow_checks) ==
    IF Len(imgs) = 0 THEN Panicked      \* images[0]: index out of bounds
    ELSE
    LET image_res == <<imgs[1].width, imgs[1].height>>
        height == CeilDivAsU32(Len(imgs), rc)
        resW == MulU32(U32(rc), U32(imgs[1].width), overflow_checks)
        resH == MulU32(height, U32(imgs[1].height), overflow_checks)
    IN  IF resW.panic \/ resH.panic THEN Panicked
        ELSE
        LET canvas == [width |-> resW.value, height |-> resH.value]
            env == [images |-> imgs, row_count |-> rc, image_res |-> image_res,
                    canvas |-> canvas, overflow_checks |-> overflow_checks,
                    \* with row_count = 0 the range 0..row_count is empty: no
                    \* pass of the outer loop runs the body
                    height |-> IF rc = 0 THEN 0 ELSE ToNat(height)]
            end == PlaceLoop(env, [y |-> 0, x |-> 0, image_index |-> 0,
                                   cells |-> <<>>, log |-> <<>>, panic |-> FALSE])
        IN  IF end.panic THEN Panicked
            ELSE [panic |-> FALSE,
                  value |-> [width |-> canvas.width, height |-> canvas.height,
                             cells |-> end.cells],
                  log |-> end.log]

(***************************************************************************)
(* get_settings, main.rs:44-47.                                            *)
(***************************************************************************)
None == [some |-> FALSE, value |-> FALSE]

Some(v) == [some |-> TRUE, value |-> v]

\* args.get(1).map(|value| value == "auto").is_some()
get_settings(argv) ==
    LET arg == IF Len(argv) >= 2 THEN Some(argv[2]) ELSE None
        mapped == IF arg.some THEN Some(arg.value = "auto") ELSE None
    IN  mapped.some

(***************************************************************************)
(* find_images_path and get_image_format, main.rs:49-90.                   *)
(***************************************************************************)
\* str::split("."): the pieces between the dots, empty pieces included.
RECURSIVE SplitFrom(_, _, _)
SplitFrom(name, i, piece) ==
    IF i > Len(name) THEN <<piece>>
    ELSE IF name[i] = "." THEN <<piece>> \o SplitFrom(name, i + 1, <<>>)
    ELSE SplitFrom(name, i + 1, Append(piece, name[i]))

Split(name) == SplitFrom(name, 1, <<>>)

get_image_format(str) ==
    CASE str = <<"p", "n", "g">> -> "Png"
      [] str = <<"j", "p", "e", "g">> -> "Jpeg"
      [] str = <<"b", "m", "p">> -> "Bmp"
      [] OTHER -> "None"

\* main.rs:60-74: entries that are no regular file are skipped; extension[1]
\* is an index into the pieces, out of bounds (a panic) when there is one piece.
RECURSIVE FindLoop(_, _, _)
FindLoop(d, i, found) ==
    IF i > Len(d) THEN [panic |-> FALSE, value |-> found]
    ELSE IF ~ d[i].is_file THEN FindLoop(d, i + 1, found)
    ELSE LET extension == Split(d[i].name)
         IN  IF Len(extension) < 2 THEN [panic |-> TRUE, value |-> found]
             ELSE LET format == get_image_format(extension[2])
                  IN  FindLoop(d, i + 1,
                          IF format # "None"
                          THEN Append(found, [path |-> i, format |-> format])
                          ELSE found)

find_images_path(d) ==
    LET r == FindLoop(d, 1, <<>>)
    IN  [panic |-> r.panic, ok |-> ~ r.panic /\ Len(r.value) > 0, value |-> r.value]

(***************************************************************************)
(* collect_images, main.rs:92-101.                                         *)
(***************************************************************************)
\* image::load(..).unwrap(): a file that does not decode panics.
RECURSIVE CollectLoop(_, _, _, _)
CollectLoop(d, images_data, i, decoded) ==
    IF i > Len(images_data) THEN [panic |-> FALSE, value |-> decoded]
    ELSE LET entry == d[images_data[i].path]
         IN  IF ~ entry.decodes THEN [panic |-> TRUE, value |-> decoded]
             ELSE CollectLoop(d, images_data, i + 1,
                      Append(decoded, [height |-> entry.height, width |-> entry.width,
                                       src |-> images_data[i].path]))

collect_images(d, images_data) == CollectLoop(d, images_data, 1, <<>>)

(***************************************************************************)
(* get_input_row_count, main.rs:36-42.                                     *)
(***************************************************************************)
IsWhitespace(c) == c \in {" ", "\n", "\t", "\r"}

RECURSIVE TrimStart(_)
TrimStart(s) == IF Len(s) > 0 /\ IsWhitespace(Head(s)) THEN TrimStart(Tail(s)) ELSE s

RECURSIVE TrimEnd(_)
TrimEnd(s) ==
    IF Len(s) > 0 /\ IsWhitespace(s[Len(s)]) THEN TrimEnd(SubSeq(s, 1, Len(s) - 1)) ELSE s

Trim(s) == TrimEnd(TrimStart(s))

Digits == <<"0", "1", "2", "3", "4", "5", "6", "7", "8", "9">>

IsDigit(c) == \E d \in 1..10 : Digits[d] = c

DigitValue(c) == (CHOOSE d \in 1..10 : Digits[d] = c) - 1

\* The digits of u32::from_str, most significant first.  Lines of the model
\* have at most nine digits, below the overflow that from_str reports as Err.
RECURSIVE ParseDigits(_, _, _)
ParseDigits(s, i, acc) ==
    IF i > Len(s) THEN [ok |-> TRUE, value |-> acc]
    ELSE IF ~ IsDigit(s[i]) THEN [ok |-> FALSE, value |-> 0]
    ELSE ParseDigits(s, i + 1, acc * 10 + DigitValue(s[i]))

\* str::parse::<u32>: empty is Err, one leading "+" is accepted, "-" is not.
ParseU32(s) ==
    IF Len(s) = 0 THEN [ok |-> FALSE, value |-> 0]
    ELSE LET body == IF s[1] = "+" THEN Tail(s) ELSE s
         IN  IF Len(body) = 0 THEN [ok |-> FALSE, value |-> 0]
             ELSE ParseDigits(body, 1, 0)

get_input_row_count(line) == ParseU32(Trim(line))

(***************************************************************************)
(* main and try_create_spritesheet, main.rs:5-34.                          *)
(***************************************************************************)
Line(text, n) == [text |-> text, n |-> n]

\* main.rs:9-14
ErrorMessage(kind) ==
    CASE kind = "NoImagesFound" -> "Error: no images found"
      [] kind = "FilterImages" -> "Error: filter image error"
      [] kind = "ImageSaveError" -> "Error: save image error"
      [] kind = "ParseError" -> "Error: parse error"

\* A stage returned a value: the next call of try_create_spritesheet.
Continue(stage, next) ==
    /\ pc' = next
    /\ completed' = Append(completed, stage)
    /\ UNCHANGED <<result, failed>>

\* A slip that records the Err and goes on to the writer instead of returning.
ReturnErrUnpropagated(stage, kind) ==
    /\ pc' = "save_image"
    /\ result' = kind
    /\ failed' = stage
    /\ UNCHANGED completed

\* The ? operator on an Err: try_create_spritesheet returns it to main.
ReturnErr(stage, kind) ==
    /\ pc' = "main_match"
    /\ result' = kind
    /\ failed' = stage
    /\ UNCHANGED completed

\* A panic (unwrap on an Err or None, an index out of bounds, an overflow
\* check): the process ends without reaching the match of main.
Abort(stage) ==
    /\ pc' = "exit"
    /\ result' = "panic"
    /\ failed' = stage
    /\ UNCHANGED completed

GetSettings ==
    /\ pc = "get_settings"
    /\ use_auto_row_count' = get_settings(args)
    /\ pc' = "find_images_path"
    /\ UNCHANGED <<args, dir, path_to_images, images, filtered, stdin_line, row_count,
                   spritesheet, loop_log, stdout, file, result, completed, failed,
                   writer_calls>>

FindImagesPath ==
    /\ pc = "find_images_path"
    /\ LET r == find_images_path(dir)
       IN  IF r.panic THEN Abort("find_images_path") /\ UNCHANGED path_to_images
           ELSE IF ~ r.ok
                THEN ReturnErr("find_images_path", "NoImagesFound") /\ UNCHANGED path_to_images
           ELSE Continue("find_images_path", "collect_images") /\ path_to_images' = r.value
    /\ UNCHANGED <<args, dir, use_auto_row_count, images, filtered, stdin_line, row_count,
                   spritesheet, loop_log, stdout, file, writer_calls>>

CollectImages ==
    /\ pc = "collect_images"
    /\ LET r == collect_images(dir, path_to_images)
       IN  IF r.panic THEN Abort("collect_images") /\ UNCHANGED images
           ELSE Continue("collect_images", "filter_images") /\ images' = r.value
    /\ UNCHANGED <<args, dir, use_auto_row_count, path_to_images, filtered, stdin_line,
                   row_count, spritesheet, loop_log, stdout, file, writer_calls>>

FilterImages ==
    /\ pc = "filter_images"
    /\ \E popular_resolution \in
              (IF PopularCandidates(images) = {} THEN {<<0, 0>>} ELSE PopularCandidates(images)) :
          LET r == filter_images(images, popular_resolution)
          IN  IF r.panic THEN Abort("filter_images") /\ UNCHANGED filtered
              ELSE IF ~ r.ok
                   THEN ReturnErr("filter_images", "FilterImages") /\ UNCHANGED filtered
              ELSE Continue("filter_images", "row_count") /\ filtered' = r.value
    /\ UNCHANGED <<args, dir, use_auto_row_count, path_to_images, images, stdin_line,
                   row_count, spritesheet, loop_log, stdout, file, writer_calls>>

\* main.rs:25-26
CalculateRowCount ==
    /\ pc = "row_count"
    /\ use_auto_row_count
    /\ row_count' = calculate_row_count(Len(filtered))
    /\ Continue("row_count", "create_spritesheet")
    /\ UNCHANGED <<args, dir, use_auto_row_count, path_to_images, images, filtered,
                   stdin_line, spritesheet, loop_log, stdout, file, writer_calls>>

Chr(d) == Digits[d + 1]

\* What the user may type: a row count of one or two digits, plain or with
\* blanks or a sign around it, and lines that are no number.
StdinLines ==
    {<<Chr(d), "\n">> : d \in 0..MaxRowCount}
    \cup {<<" ", "2", " ", "\n">>, <<"+", "3", "\n">>, <<"1", "0", "\n">>,
          <<"-", "1", "\n">>, <<"x", "\n">>, <<"\n">>, <<"2", "x", "\n">>}

\* main.rs:27-30
GetInputRowCount ==
    /\ pc = "row_count"
    /\ ~ use_auto_row_count
    /\ \E line \in StdinLines :
          LET r == get_input_row_count(line)
          IN  /\ stdin_line' = line
              /\ stdout' = stdout \o <<Line("Image count: ", Len(filtered)),
                                       Line("Enter row count: ", -1)>>
              /\ IF r.ok
                 THEN Continue("row_count", "create_spritesheet") /\ row_count' = r.value
                 ELSE ReturnErr("row_count", "ParseError") /\ UNCHANGED row_count
    /\ UNCHANGED <<args, dir, use_auto_row_count, path_to_images, images, filtered,
                   spritesheet, loop_log, file, writer_calls>>

\* main.rs:31; the build decides whether an overflowing product panics.
CreateSpritesheet ==
    /\ pc = "create_spritesheet"
    /\ \E overflow_checks \in BOOLEAN :
          LET r == create_spritesheet(row_count, filtered, overflow_checks)
          IN  IF r.panic
              THEN Abort("create_spritesheet") /\ UNCHANGED <<spritesheet, loop_log>>
              ELSE /\ Continue("create_spritesheet", "save_image")
                   /\ spritesheet' = r.value
                   /\ loop_log' = r.log
    /\ UNCHANGED <<args, dir, use_auto_row_count, path_to_images, images, filtered,
                   stdin_line, row_count, stdout, file, writer_calls>>

\* main.rs:32 and save_image, main.rs:164-170: DynamicImage::save returns Ok
\* after writing spritesheet.png, or an ImageError.
SaveImage ==
    /\ pc = "save_image"
    /\ writer_calls' = writer_calls + 1
    /\ \E saved \in BOOLEAN :
          IF saved
          THEN /\ file' = [exists |-> TRUE, content |-> spritesheet]
               /\ pc' = "main_match"
               /\ result' = "Ok"
               /\ completed' = Append(completed, "save_image")
               /\ UNCHANGED failed
          ELSE ReturnErr("save_image", "ImageSaveError") /\ UNCHANGED file
    /\ UNCHANGED <<args, dir, use_auto_row_count, path_to_images, images, filtered,
                   stdin_line, row_count, spritesheet, loop_log, stdout>>

\* main.rs:6-17
MainMatch ==
    /\ pc = "main_match"
    /\ stdout' = IF result = "Ok" THEN stdout
                 ELSE Append(stdout, Line(ErrorMessage(result), -1))
    /\ pc' = "exit"
    /\ UNCHANGED <<args, dir, use_auto_row_count, path_to_images, images, filtered,
                   stdin_line, row_count, spritesheet, loop_log, file, result, completed,
                   failed, writer_calls>>

(***************************************************************************)
(* The runs.                                                               *)
(***************************************************************************)
Image(h, w, is_file, decodes, name) ==
    [name |-> name, is_file |-> is_file, decodes |-> decodes, height |-> h, width |-> w]

\* The entries a working directory is drawn from.
Catalog ==
    { Image(1, 1, TRUE, TRUE, <<"a", ".", "p", "n", "g">>),
      Image(2, 1, TRUE, TRUE, <<"b", ".", "p", "n", "g">>),
      Image(1, 1, TRUE, TRUE, <<"c", ".", "j", "p", "e", "g">>),
      Image(1, 2, TRUE, TRUE, <<"d", ".", "b", "m", "p">>),
      Image(1, 1, TRUE, FALSE, <<"e", ".", "p", "n", "g">>),
      Image(1, 1, TRUE, FALSE, <<"f", ".", "t", "x", "t">>),
      Image(1, 1, TRUE, FALSE, <<"R", "E", "A", "D", "M", "E">>),
      Image(1, 1, TRUE, TRUE, <<"g", ".", "v", "2", ".", "p", "n", "g">>),
      Image(1, 1, TRUE, TRUE, <<"h", ".", "p", "n", "g", ".", "b", "a", "k">>),
      Image(1, 1, TRUE, TRUE, <<"i", ".", "P", "N", "G">>),
      Image(1, 1, FALSE, FALSE, <<"s", "u", "b", ".", "p", "n", "g">>) }

Directories ==
    {d \in UNION {[1..n -> Catalog] : n \in 0..MaxFiles} :
        \A i, j \in DOMAIN d : i # j => d[i] # d[j]}

ArgLists == {<<"packer">>, <<"packer", "auto">>, <<"packer", "manual">>}

NoFile == [exists |-> FALSE, content |-> NoCanvas]

Fresh ==
    /\ path_to_images = <<>>
    /\ stdin_line = <<>>
    /\ row_count = 0
    /\ spritesheet = NoCanvas
    /\ loop_log = <<>>
    /\ stdout = <<>>
    /\ file = NoFile
    /\ result = "running"
    /\ failed = "none"
    /\ writer_calls = 0

Init ==
    /\ args \in ArgLists
    /\ dir \in Directories
    /\ pc = "get_settings"
    /\ use_auto_row_count = FALSE
    /\ images = <<>>
    /\ filtered = <<>>
    /\ completed = <<>>
    /\ Fresh

Next ==
    \/ GetSettings
    \/ FindImagesPath
    \/ CollectImages
    \/ FilterImages
    \/ CalculateRowCount
    \/ GetInputRowCount
    \/ CreateSpritesheet
    \/ SaveImage
    \/ MainMatch

Spec == Init /\ [][Next]_vars

\* filter_images on every list of up to MaxFilterLen decoded images.
Resolutions == (1..MaxCell) \X (1..MaxCell)

ImageLists ==
    {[i \in DOMAIN r |-> [height |-> r[i][1], width |-> r[i][2], src |-> i]] :
        r \in UNION {[1..n -> Resolutions] : n \in 1..MaxFilterLen}}

InitFilter ==
    /\ args = <<"packer">>
    /\ dir = <<>>
    /\ pc = "filter_images"
    /\ use_auto_row_count = FALSE
    /\ images \in ImageLists
    /\ filtered = <<>>
    /\ completed = <<"find_images_path", "collect_images">>
    /\ Fresh

NextFilter == FilterImages

SpecFilter == InitFilter /\ [][NextFilter]_vars

\* The layout of every list of up to MaxImages images of one resolution, as
\* filter_images returns them: the row count, the canvas, the placement.
InitLayout ==
    /\ args \in {<<"packer">>, <<"packer", "auto">>}
    /\ dir = <<>>
    /\ pc = "row_count"
    /\ use_auto_row_count = get_settings(args)
    /\ \E n \in 1..MaxImages, h \in 1..MaxCell, w \in 1..MaxCell :
          filtered = [i \in 1..n |-> [height |-> h, width |-> w, src |-> i]]
    /\ images = filtered
    /\ completed = <<"find_images_path", "collect_images", "filter_images">>
    /\ Fresh

NextLayout ==
    \/ CalculateRowCount
    \/ GetInputRowCount
    \/ CreateSpritesheet
    \/ SaveImage
    \/ MainMatch

SpecLayout == InitLayout /\ [][NextLayout]_vars

(***************************************************************************)
(* The properties.                                                         *)
(***************************************************************************)
StageDone(stage) == \E i \in DOMAIN completed : completed[i] = stage

StageRan(stage) == StageDone(stage) \/ failed = stage

Order == <<"find_images_path", "collect_images", "filter_images", "row_count",
           "create_spritesheet", "save_image">>

ErrKinds == {"NoImagesFound", "FilterImages", "ImageSaveError", "ParseError"}

KeysOf(imgs) == {<<imgs[i].height, imgs[i].width>> : i \in DOMAIN imgs}

CountOf(imgs, k) == Cardinality({i \in DOMAIN imgs : <<imgs[i].height, imgs[i].width>> = k})

OfKey(imgs, k) ==
    LET Test(img) == img.height = k[1] /\ img.width = k[2]
    IN  SelectSeq(imgs, Test)

\* The least k with k * rc >= n: ceil(n / rc) for rc >= 1.
CeilQuot(n, rc) == CHOOSE k \in 0..n : k * rc >= n /\ (k = 0 \/ (k - 1) * rc < n)

\* C1: on a non-empty list of images with positive dimensions filter_images
\* returns Ok with a non-empty list, which is the subsequence, in input order,
\* of all images of one (height, width) pair that occurs in the input at least
\* as often as every other pair; a list of one resolution is returned as it is.
C1_FilterKeepsMostCommonResolution ==
    (StageRan("filter_images") /\ Len(images) >= 1) =>
        /\ StageDone("filter_images")
        /\ Len(filtered) >= 1
        /\ \E k \in KeysOf(images) :
              /\ filtered = OfKey(images, k)
              /\ \A other \in KeysOf(images) : CountOf(images, other) <= CountOf(images, k)
        /\ (Cardinality(KeysOf(images)) = 1 => filtered = images)

\* Four images of three resolutions: the first and the last are kept.
C1_Witness ==
    /\ StageDone("filter_images")
    /\ Len(images) = 4
    /\ Cardinality(KeysOf(images)) = 3
    /\ Len(filtered) = 2
    /\ filtered[1].src = 1
    /\ filtered[2].src = 4

\* C2: for a row count >= 1 and a non-empty list of images of one resolution
\* the canvas create_spritesheet returns is rowCount * cellWidth wide and
\* ceil(imageCount / rowCount) * cellHeight high.
C2_CanvasSize ==
    (StageDone("create_spritesheet") /\ row_count >= 1) =>
        /\ spritesheet.width = U32(row_count * filtered[1].width)
        /\ spritesheet.height = U32(CeilQuot(Len(filtered), row_count) * filtered[1].height)

\* Seven images in rows of three: three rows, the last one short.
C2_Witness ==
    /\ StageDone("create_spritesheet")
    /\ row_count = 3
    /\ Len(filtered) = 7
    /\ filtered[1].height = 2
    /\ spritesheet.height = U32(6)

\* C3: with a row count >= 1 create_spritesheet copies every input image once,
\* the image at index i (from 0) to the offset
\* ((i mod rowCount) * cellWidth, (i div rowCount) * cellHeight): row-major in
\* input order, no two images in one cell.
C3_RowMajorPlacement ==
    (StageRan("create_spritesheet") /\ row_count >= 1) =>
        /\ StageDone("create_spritesheet")
        /\ Len(spritesheet.cells) = Len(filtered)
        /\ \A i \in DOMAIN filtered :
              /\ spritesheet.cells[i].image = filtered[i]
              /\ spritesheet.cells[i].x = U32(((i - 1) % row_count) * filtered[1].width)
              /\ spritesheet.cells[i].y = U32(((i - 1) \div row_count) * filtered[1].height)
        /\ \A i, j \in DOMAIN spritesheet.cells :
              i # j => <<spritesheet.cells[i].x, spritesheet.cells[i].y>>
                          # <<spritesheet.cells[j].x, spritesheet.cells[j].y>>

\* Five images, two wide and one high, in rows of two: the fifth starts row 2.
C3_Witness ==
    /\ StageDone("create_spritesheet")
    /\ row_count = 2
    /\ Len(filtered) = 5
    /\ filtered[1].width = 2
    /\ filtered[1].height = 1
    /\ spritesheet.cells[5].x = ZeroWord
    /\ spritesheet.cells[5].y = U32(2)
    /\ spritesheet.cells[4].x = U32(2)

\* C4: automatic mode is selected if and only if the first argument exists and
\* is the string "auto"; otherwise the run is in manual mode.
C4_AutoIffLiteralAuto ==
    pc # "get_settings" =>
        (use_auto_row_count <=> (Len(args) >= 2 /\ args[2] = "auto"))

\* C5: create_spritesheet fails with an error result, neither a crash nor a
\* canvas, whenever the row count is 0 or the image list is empty.
C5_ZeroRowCountIsAnError ==
    (StageRan("create_spritesheet") /\ (row_count = 0 \/ Len(filtered) = 0)) =>
        /\ failed = "create_spritesheet"
        /\ result \in ErrKinds

\* C6: in automatic mode the row count passed to create_spritesheet is
\* floor(sqrt(imageCount)) of the number of filtered images, and is >= 1
\* (1 for 1 image, 3 for 9, 3 for 10).
C6_AutoRowCountIsFloorSqrt ==
    (use_auto_row_count /\ StageDone("row_count") /\ Len(filtered) >= 1) =>
        /\ row_count * row_count <= Len(filtered)
        /\ Len(filtered) < (row_count + 1) * (row_count + 1)
        /\ row_count >= 1
        /\ (Len(filtered) = 1 => row_count = 1)
        /\ (Len(filtered) = 9 => row_count = 3)
        /\ (Len(filtered) = 10 => row_count = 3)

\* Ten images in automatic mode reach create_spritesheet with a row count of 3.
C6_Witness ==
    /\ use_auto_row_count
    /\ pc = "create_spritesheet"
    /\ Len(filtered) = 10
    /\ row_count = 3

IsPrefix(s, t) == Len(s) <= Len(t) /\ \A i \in DOMAIN s : s[i] = t[i]

\* C7: spritesheet.png is written at most once, and only after the collector,
\* the filter, the row-count policy and the composer have completed in that
\* order; a run in which one of them fails ends with no call of the writer
\* and no later stage run.
C7_WriteOnlyAfterAllStages ==
    /\ writer_calls <= 1
    /\ IsPrefix(completed, Order)
    /\ (writer_calls = 1 \/ pc = "save_image") => Len(completed) >= 5
    /\ file.exists => (writer_calls = 1 /\ StageDone("save_image")
                       /\ file.content = spritesheet)
    /\ (failed # "none" /\ failed # "save_image") =>
          /\ writer_calls = 0
          /\ ~ file.exists
          /\ pc \in {"main_match", "exit"}
          /\ Order[Len(completed) + 1] = failed

\* A run that wrote the sheet of two images after all five stages.
C7_Witness ==
    /\ pc = "exit"
    /\ result = "Ok"
    /\ file.exists
    /\ Len(file.content.cells) = 2
    /\ completed = Order

Printed(text) == \E i \in DOMAIN stdout : stdout[i].text = text

\* C8: a decode failure of a qualifying file, like an encode or write failure
\* of the sheet, ends the run with ImageSaveError and the message
\* "Error: save image error".
C8_ImageFailuresAreSaveErrors ==
    (pc = "exit" /\ failed \in {"collect_images", "save_image"}) =>
        /\ result = "ImageSaveError"
        /\ Printed("Error: save image error")

\* The extension of a file name: what follows its last dot, if it has a dot.
Extension(name) ==
    LET pieces == Split(name)
    IN  IF Len(pieces) < 2 THEN <<>> ELSE pieces[Len(pieces)]

Qualifies(entry) ==
    /\ entry.is_file
    /\ Extension(entry.name) \in {<<"p", "n", "g">>, <<"j", "p", "e", "g">>, <<"b", "m", "p">>}

\* C9: find_images_path returns exactly the regular files whose extension is
\* png, jpeg or bmp, returns NoImagesFound if and only if there is none, and
\* never aborts on a file name.
C9_FindReturnsFilesByExtension ==
    StageRan("find_images_path") =>
        /\ result # "panic" \/ failed # "find_images_path"
        /\ (failed = "find_images_path" /\ result = "NoImagesFound")
              <=> (\A i \in DOMAIN dir : ~ Qualifies(dir[i]))
        /\ StageDone("find_images_path") =>
              {path_to_images[i].path : i \in DOMAIN path_to_images}
                  = {i \in DOMAIN dir : Qualifies(dir[i])}

\* The grid cell of a copy.
CellOf(copy) ==
    <<ToNat(copy.x) \div copy.image.width, ToNat(copy.y) \div copy.image.height>>

\* C10: with a row count >= 1 every copy lies inside the canvas, no copy
\* follows the exhaustion of the list, and the unfilled cells are the
\* ceil(imageCount / rowCount) * rowCount - imageCount < rowCount last cells of
\* the last row.
C10_TailOfLastRowUnfilled ==
    (StageDone("create_spritesheet") /\ row_count >= 1) =>
        LET n == Len(filtered)
            rows == ToNat(spritesheet.height) \div filtered[1].height
            columns == ToNat(spritesheet.width) \div filtered[1].width
            grid == (0..(columns - 1)) \X (0..(rows - 1))
            filled == {CellOf(spritesheet.cells[i]) : i \in DOMAIN spritesheet.cells}
            unfilled == grid \ filled
            missing == CeilQuot(n, row_count) * row_count - n
        IN  /\ \A i \in DOMAIN spritesheet.cells :
                  /\ ToNat(spritesheet.cells[i].x) + spritesheet.cells[i].image.width
                        <= ToNat(spritesheet.width)
                  /\ ToNat(spritesheet.cells[i].y) + spritesheet.cells[i].image.height
                        <= ToNat(spritesheet.height)
            /\ \A i, j \in DOMAIN loop_log :
                  (i < j /\ loop_log[i].kind = "break") => loop_log[j].kind # "copy"
            /\ \A i \in DOMAIN loop_log :
                  loop_log[i].kind = "break" => loop_log[i].index >= n
            /\ Cardinality(unfilled) = missing
            /\ missing < row_count
            /\ unfilled = {<<c, rows - 1>> : c \in (row_count - missing)..(row_count - 1)}

\* Six images in rows of four: the last two cells of the second row stay
\* empty, and the loop stopped at the first of them.
C10_Witness ==
    /\ StageDone("create_spritesheet")
    /\ row_count = 4
    /\ Len(filtered) = 6
    /\ \E i \in DOMAIN loop_log :
          loop_log[i] = [y |-> 1, x |-> 2, kind |-> "break", index |-> 6]

====
